---------------------------- MODULE Spec2Model ----------------------------
(***************************************************************************)
(* Links Dashboard API (src/main.py, src/schemas.py): a FastAPI service    *)
(* over two MongoDB collections, "link" and "user".                        *)
(*                                                                         *)
(* The state is the store (the two collections, the ObjectId generator,    *)
(* the server clock), the last response sent, and, for the specifications  *)
(* that interleave requests, the requests in flight.  Every handler of     *)
(* main.py is one action; the handlers whose store calls can interleave    *)
(* with another request's are also given one action per store call.        *)
(*                                                                         *)
(* Text is a sequence of one-character strings, so that strip, the         *)
(* case-insensitive search and the label ordering are computed.            *)
(* Optional[T] is a set: {} is None, {v} is the value v.                   *)
(***************************************************************************)
EXTENDS Integers, Sequences, FiniteSets, TLC

VARIABLES
    db,       \* the store handle of database.py: "None" or "connected"
    link,     \* db["link"]: ObjectId -> document
    user,     \* db["user"]: ObjectId -> document
    nextOid,  \* number of ObjectIds generated so far
    now,      \* the clock (serverStatus localTime, datetime.now)
    resp,     \* the last response sent
    req       \* the requests in flight, one per worker

vars == <<db, link, user, nextOid, now, resp, req>>

-----------------------------------------------------------------------------
(* Bounds of the model. *)

MaxLinks == 2
MaxClicks == 2
MaxTime == 1
MaxUsers == 2
MaxWorkers == 2

Workers == 1..MaxWorkers

-----------------------------------------------------------------------------
(* Values. *)

None == {}

Some(v) == {v}

Unwrap(opt) == CHOOSE v \in opt : TRUE

\* Python's str.isspace on the characters the model uses.
Whitespace == {" ", "\t"}

\* ord(c): the code point, which orders strings in Python and in MongoDB's
\* simple collation.
ord(c) ==
    CASE c = "\t" -> 9
      [] c = " " -> 32
      [] c = "B" -> 66
      [] c = "F" -> 70
      [] c = "a" -> 97
      [] c = "b" -> 98
      [] c = "f" -> 102
      [] c = "o" -> 111
      [] OTHER -> 122

\* The case folding of the "i" option of $regex.
lower(c) ==
    CASE c = "B" -> "b"
      [] c = "F" -> "f"
      [] OTHER -> c

-----------------------------------------------------------------------------
(* Text. *)

RECURSIVE lstrip(_)
lstrip(s) ==
    IF s # <<>> /\ Head(s) \in Whitespace THEN lstrip(Tail(s)) ELSE s

RECURSIVE rstrip(_)
rstrip(s) ==
    IF s # <<>> /\ s[Len(s)] \in Whitespace
    THEN rstrip(SubSeq(s, 1, Len(s) - 1))
    ELSE s

\* str.strip(): leading and trailing whitespace removed.
strip(s) == rstrip(lstrip(s))

\* A faulty variant of normalize_labels_create and normalize_labels_update below:
\* the surviving labels are kept as given instead of stripped.
RECURSIVE keep_unstripped(_)
keep_unstripped(labels) ==
    IF labels = <<>> THEN <<>>
    ELSE IF strip(Head(labels)) # <<>>
         THEN <<Head(labels)>> \o keep_unstripped(Tail(labels))
         ELSE keep_unstripped(Tail(labels))

\* [l.strip() for l in (data.get("labels") or []) if l.strip()]
RECURSIVE normalize_labels_create(_)
normalize_labels_create(labels) ==
    IF labels = <<>> THEN <<>>
    ELSE IF strip(Head(labels)) # <<>>
         THEN <<strip(Head(labels))>> \o normalize_labels_create(Tail(labels))
         ELSE normalize_labels_create(Tail(labels))

\* [l.strip() for l in update_data["labels"] if l and l.strip()]
RECURSIVE normalize_labels_update(_)
normalize_labels_update(labels) ==
    IF labels = <<>> THEN <<>>
    ELSE IF Head(labels) # <<>> /\ strip(Head(labels)) # <<>>
         THEN <<strip(Head(labels))>> \o normalize_labels_update(Tail(labels))
         ELSE normalize_labels_update(Tail(labels))

fold(s) == [i \in 1..Len(s) |-> lower(s[i])]

\* {"$regex": search, "$options": "i"} for a search text without regex
\* operators: the text occurs somewhere in the field, case ignored.
regex_i(search, text) ==
    \E i \in 1..(Len(text) - Len(search) + 1) :
        SubSeq(fold(text), i, i + Len(search) - 1) = fold(search)

\* The order of two strings in a $sort: by code point, a proper prefix first.
RECURSIVE str_less(_, _)
str_less(a, b) ==
    IF b = <<>> THEN FALSE
    ELSE IF a = <<>> THEN TRUE
    ELSE IF ord(Head(a)) # ord(Head(b)) THEN ord(Head(a)) < ord(Head(b))
    ELSE str_less(Tail(a), Tail(b))

-----------------------------------------------------------------------------
(* Identifiers.  A path parameter is a string; the model keeps of it what *)
(* ObjectId reads: whether it is 24 hexadecimal digits, and which value.  *)

\* A faulty variant of is_valid: every identifier passes.
is_valid_any(link_id) == TRUE

\* ObjectId.is_valid(link_id)
is_valid(link_id) == link_id.hex

\* ObjectId(link_id)
ObjectId(link_id) == link_id.n

\* str(doc["_id"])
str(oid) == [hex |-> TRUE, n |-> oid]

\* datetime.isoformat()
isoformat(t) == <<"iso", t>>

\* serialize_doc: "_id" becomes the string "id", the datetimes are rendered.
serialize_doc(oid, doc) ==
    [k \in DOMAIN doc \cup {"id"} |->
        IF k = "id" THEN str(oid)
        ELSE IF k \in {"created_at", "updated_at"} THEN isoformat(doc[k])
        ELSE doc[k]]

-----------------------------------------------------------------------------
(* Request validation (pydantic, FastAPI's Query). *)

\* HttpUrl: scheme http or https, then "://", then a host.
HttpUrl(url) ==
    /\ Len(url) = 3
    /\ url[1] \in {<<"h", "t", "t", "p">>, <<"h", "t", "t", "p", "s">>}
    /\ url[2] = <<":", "/", "/">>
    /\ url[3] # <<>>

\* LinkCreate of schemas.py: url is an HttpUrl.
LinkCreate(payload) == HttpUrl(payload.url)

\* LinkUpdate of main.py: four optional fields, url a plain str.
LinkUpdate(payload) == DOMAIN payload = {"title", "url", "labels", "description"}

\* Query(100, ge=1, le=500)
limit_ge == 1
limit_le == 500
limit_ok(limit) == limit_ge <= limit /\ limit <= limit_le

\* Query("popular", pattern="^(popular|new)$")
sort_ok(sort) == sort \in {"popular", "new"}

-----------------------------------------------------------------------------
(* The store (pymongo, database.py). *)

\* create_document(collection_name, data): the insert of database.py; the
\* document gets the next ObjectId and its created_at.
create_document(coll, oid, data, t) ==
    [i \in DOMAIN coll \cup {oid} |->
        IF i = oid
        THEN [k \in DOMAIN data \cup {"created_at"} |->
                 IF k = "created_at" THEN t ELSE data[k]]
        ELSE coll[i]]

\* An update document {"$set": fields} applied to a document.
set_fields(doc, fields) ==
    [k \in DOMAIN doc \cup DOMAIN fields |->
        IF k \in DOMAIN fields THEN fields[k] ELSE doc[k]]

\* A faulty variant of inc_clicks: the counter is written ($set) from a
\* value the request holds instead of incremented in the store.
set_clicks(doc, t) ==
    set_fields(doc, [clicks |-> 1, updated_at |-> t])

\* A faulty variant of inc_clicks: the update leaves the counter out.
touch(doc, t) ==
    set_fields(doc, [updated_at |-> t])

\* {"$inc": {"clicks": 1}, "$set": {"updated_at": t}} applied to a document.
inc_clicks(doc, t) ==
    set_fields(doc, [clicks |-> doc.clicks + 1, updated_at |-> t])

\* delete_one({"_id": oid})
delete_one(coll, oid) == [i \in DOMAIN coll \ {oid} |-> coll[i]]

\* A response: the handler and the path of the request it answers, the
\* status, the detail of an error or the body, and the number of store
\* calls the handler made.
Response(op, status, detail, body, calls) ==
    [op |-> op, path |-> <<>>, status |-> status, detail |-> detail,
     body |-> body, store_calls |-> calls]

\* raise HTTPException(status_code, detail)
HTTPException(op, status, detail, calls) ==
    Response(op, status, detail, <<>>, calls)

\* The response to a request on /links/{link_id}.
At(link_id, response) == [response EXCEPT !.path = <<link_id>>]

-----------------------------------------------------------------------------
(* The aggregation pipeline of list_labels and the query of list_links. *)

\* {"$unwind": "$labels"}: one document per label occurrence, the documents
\* taken in insertion order; a document without labels yields none.
RECURSIVE unwind(_, _)
unwind(coll, n) ==
    IF n = 0 THEN <<>>
    ELSE unwind(coll, n - 1) \o (IF n \in DOMAIN coll THEN coll[n].labels ELSE <<>>)

\* A faulty variant of group: a label seen again is not counted again.
RECURSIVE group_once(_)
group_once(occurrences) ==
    IF occurrences = <<>> THEN <<>>
    ELSE LET g == group_once(SubSeq(occurrences, 1, Len(occurrences) - 1))
             l == occurrences[Len(occurrences)]
         IN  IF \E i \in 1..Len(g) : g[i]._id = l
             THEN g
             ELSE Append(g, [_id |-> l, count |-> 1])

\* {"$group": {"_id": "$labels", "count": {"$sum": 1}}}
RECURSIVE group(_)
group(occurrences) ==
    IF occurrences = <<>> THEN <<>>
    ELSE LET g == group(SubSeq(occurrences, 1, Len(occurrences) - 1))
             l == occurrences[Len(occurrences)]
         IN  IF \E i \in 1..Len(g) : g[i]._id = l
             THEN [i \in 1..Len(g) |->
                      IF g[i]._id = l
                      THEN [_id |-> l, count |-> g[i].count + 1]
                      ELSE g[i]]
             ELSE Append(g, [_id |-> l, count |-> 1])

\* {"$sort": {"count": -1, "_id": 1}}: whether group a comes before group b.
sort_before(a, b) ==
    \/ a.count > b.count
    \/ a.count = b.count /\ str_less(a._id, b._id)

RECURSIVE insert_sorted(_, _)
insert_sorted(x, s) ==
    IF s = <<>> THEN <<x>>
    ELSE IF sort_before(x, Head(s)) THEN <<x>> \o s
    ELSE <<Head(s)>> \o insert_sorted(x, Tail(s))

RECURSIVE sort_groups(_)
sort_groups(s) ==
    IF s = <<>> THEN <<>> ELSE insert_sorted(Head(s), sort_groups(Tail(s)))

\* db["link"].aggregate(pipeline), each group rendered {"label", "count"}.
aggregate(coll, n) ==
    LET agg == sort_groups(group(unwind(coll, n)))
    IN  [i \in 1..Len(agg) |-> [label |-> agg[i]._id, count |-> agg[i].count]]

\* filter_q of list_links: "labels" $in [label], and "$or" of the two regexes.
\* An empty label or search is no filter (if label:, if search:).
filter_q(doc, label, search) ==
    /\ (label # None /\ Unwrap(label) # <<>>) =>
           \E i \in 1..Len(doc.labels) : doc.labels[i] = Unwrap(label)
    /\ (search # None /\ Unwrap(search) # <<>>) =>
           \/ regex_i(Unwrap(search), doc.title)
           \/ doc.description # None /\ regex_i(Unwrap(search), Unwrap(doc.description))

\* sort_spec of list_links: the key sorted on, descending.
sort_key(doc, sort) == IF sort = "popular" THEN doc.clicks ELSE doc.created_at

\* The orders find(filter_q).sort(sort_spec) may return the matching
\* documents in: the key never increases; equal keys come in any order.
cursor_orders(coll, label, search, sort) ==
    LET hits == {i \in DOMAIN coll : filter_q(coll[i], label, search)}
    IN  {o \in [1..Cardinality(hits) -> hits] :
            /\ \A i, j \in DOMAIN o : i # j => o[i] # o[j]
            /\ \A i, j \in DOMAIN o :
                   i < j => sort_key(coll[o[i]], sort) >= sort_key(coll[o[j]], sort)}

\* .limit(limit)
limit_to(o, limit) == SubSeq(o, 1, IF Len(o) < limit THEN Len(o) ELSE limit)

-----------------------------------------------------------------------------
(* Links API: one action per handler. *)

\* POST /links
create_link(payload, stored) ==
    /\ (LinkCreate(payload) /\ db # "None" /\ stored) => nextOid < MaxLinks
    /\ IF ~LinkCreate(payload)
       THEN /\ resp' = HTTPException("create_link", 422, "url", 0)
            /\ UNCHANGED <<link, nextOid>>
       ELSE LET labels == normalize_labels_create(payload.labels)
                data == set_fields(payload, [clicks |-> 0, labels |-> labels])
                oid == nextOid + 1
            IN  IF db = "None" \/ ~stored
                THEN /\ resp' = HTTPException("create_link", 500, "str(e)", 1)
                     /\ UNCHANGED <<link, nextOid>>
                ELSE /\ link' = create_document(link, oid, data, now)
                     /\ nextOid' = oid
                     /\ resp' = Response("create_link", 200, "",
                                         serialize_doc(oid, link'[oid]), 2)
    /\ UNCHANGED <<db, user, now, req>>

\* GET /links
list_links(label, search, sort, limit) ==
    /\ IF ~sort_ok(sort)
       THEN resp' = HTTPException("list_links", 422, "sort", 0)
       ELSE IF ~limit_ok(limit)
       THEN resp' = HTTPException("list_links", 422, "limit", 0)
       ELSE IF db = "None"
       THEN resp' = HTTPException("list_links", 500, "Database not available", 0)
       ELSE \E o \in cursor_orders(link, label, search, sort) :
                LET cursor == limit_to(o, limit)
                IN  resp' = Response("list_links", 200, "",
                                     [i \in 1..Len(cursor) |->
                                         serialize_doc(cursor[i], link[cursor[i]])],
                                     1)
    /\ UNCHANGED <<db, link, user, nextOid, now, req>>

\* POST /links/{link_id}/click
increment_click(link_id) ==
    /\ (db # "None" /\ is_valid(link_id) /\ ObjectId(link_id) \in DOMAIN link)
           => link[ObjectId(link_id)].clicks < MaxClicks
    /\ IF db = "None"
       THEN /\ resp' = At(link_id, HTTPException("increment_click", 500,
                                             "Database not available", 0))
            /\ UNCHANGED link
       ELSE IF ~is_valid(link_id)
       THEN /\ resp' = At(link_id, HTTPException("increment_click", 400,
                                             "Invalid link id", 0))
            /\ UNCHANGED link
       ELSE LET oid == ObjectId(link_id)
                localTime == now
            IN  IF oid \in DOMAIN link
                THEN /\ link' = [link EXCEPT ![oid] = inc_clicks(@, localTime)]
                     /\ resp' = At(link_id, Response("increment_click", 200, "",
                                               serialize_doc(oid, link'[oid]), 2))
                ELSE /\ resp' = At(link_id, HTTPException("increment_click", 404,
                                                  "Link not found", 2))
                     /\ UNCHANGED link
    /\ UNCHANGED <<db, user, nextOid, now, req>>

\* A faulty variant of model_dump: the description is dumped even when the
\* request omits it, as None.
model_dump_description(payload) ==
    [k \in {f \in DOMAIN payload : payload[f] # None} \cup {"description"} |->
        IF k = "description" THEN payload[k] ELSE Unwrap(payload[k])]

\* payload.model_dump(exclude_none=True).  A document holds its description
\* as the Optional it is in LinkCreate, the other fields as their values.
model_dump(payload) ==
    [k \in {f \in DOMAIN payload : payload[f] # None} |->
        IF k = "description" THEN payload[k] ELSE Unwrap(payload[k])]

\* A faulty variant of is_empty: the check for an empty update is missing.
is_never_empty(update_data) == FALSE

\* not update_data
is_empty(update_data) == DOMAIN update_data = {}

\* update_data of update_link, the labels normalized.
update_data(payload) ==
    LET dumped == model_dump(payload)
    IN  IF "labels" \in DOMAIN dumped
        THEN set_fields(dumped, [labels |-> normalize_labels_update(dumped.labels)])
        ELSE dumped

\* PUT /links/{link_id}
update_link(link_id, payload) ==
    /\ IF ~LinkUpdate(payload)
       THEN /\ resp' = At(link_id, HTTPException("update_link", 422, "body", 0))
            /\ UNCHANGED link
       ELSE IF db = "None"
       THEN /\ resp' = At(link_id, HTTPException("update_link", 500,
                                             "Database not available", 0))
            /\ UNCHANGED link
       ELSE IF ~is_valid(link_id)
       THEN /\ resp' = At(link_id, HTTPException("update_link", 400,
                                             "Invalid link id", 0))
            /\ UNCHANGED link
       ELSE IF is_empty(update_data(payload))
       THEN /\ resp' = At(link_id, HTTPException("update_link", 400,
                                             "No fields to update", 0))
            /\ UNCHANGED link
       ELSE LET oid == ObjectId(link_id)
                localTime == now
            IN  IF oid \in DOMAIN link
                THEN /\ link' = [link EXCEPT ![oid] =
                                    set_fields(@, set_fields(update_data(payload),
                                                             [updated_at |-> localTime]))]
                     /\ resp' = At(link_id, Response("update_link", 200, "",
                                               serialize_doc(oid, link'[oid]), 2))
                ELSE /\ resp' = At(link_id, HTTPException("update_link", 404,
                                                  "Link not found", 2))
                     /\ UNCHANGED link
    /\ UNCHANGED <<db, user, nextOid, now, req>>

\* DELETE /links/{link_id}
delete_link(link_id) ==
    /\ IF db = "None"
       THEN /\ resp' = At(link_id, HTTPException("delete_link", 500,
                                             "Database not available", 0))
            /\ UNCHANGED link
       ELSE IF ~is_valid(link_id)
       THEN /\ resp' = At(link_id, HTTPException("delete_link", 400,
                                             "Invalid link id", 0))
            /\ UNCHANGED link
       ELSE LET oid == ObjectId(link_id)
            IN  IF oid \in DOMAIN link
                THEN /\ link' = delete_one(link, oid)
                     /\ resp' = At(link_id, Response("delete_link", 200, "",
                                               [ok |-> TRUE], 1))
                ELSE /\ resp' = At(link_id, HTTPException("delete_link", 404,
                                                  "Link not found", 1))
                     /\ UNCHANGED link
    /\ UNCHANGED <<db, user, nextOid, now, req>>

\* GET /labels
list_labels ==
    /\ IF db = "None"
       THEN resp' = HTTPException("list_labels", 500, "Database not available", 0)
       ELSE resp' = Response("list_labels", 200, "", aggregate(link, nextOid), 1)
    /\ UNCHANGED <<db, link, user, nextOid, now, req>>

\* Time passes between two requests.
Tick ==
    /\ now < MaxTime
    /\ now' = now + 1
    /\ UNCHANGED <<db, link, user, nextOid, resp, req>>

-----------------------------------------------------------------------------
(* Users API. *)

\* data.get("email"): an email that is None or empty is not looked up.
truthy(opt) == opt # None /\ Unwrap(opt) # <<>>

\* A faulty variant of find_one_email: the filter names a field no document
\* has, so nothing matches.
find_one_mail(coll, email) == None

\* db["user"].find_one({"email": email}): the first match in insertion
\* order, None when there is none.
find_one_email(coll, email) ==
    LET hits == {i \in DOMAIN coll : coll[i].email = email}
    IN  IF hits = {} THEN None
        ELSE Some(CHOOSE i \in hits : \A j \in hits : i <= j)

\* POST /users
create_user(payload, stored) ==
    /\ (db # "None" /\ stored
          /\ (truthy(payload.email) => find_one_email(user, payload.email) = None))
           => nextOid < MaxUsers
    /\ IF db = "None"
       THEN /\ resp' = HTTPException("create_user", 500, "Database not available", 0)
            /\ UNCHANGED <<user, nextOid>>
       ELSE LET data == payload
                exists == IF truthy(data.email)
                          THEN find_one_email(user, data.email)
                          ELSE None
                calls == IF truthy(data.email) THEN 1 ELSE 0
                user_id == nextOid + 1
            IN  IF exists # None
                THEN /\ resp' = Response("create_user", 200, "",
                                         serialize_doc(Unwrap(exists), user[Unwrap(exists)]),
                                         calls)
                     /\ UNCHANGED <<user, nextOid>>
                ELSE IF ~stored
                THEN /\ resp' = HTTPException("create_user", 500, "str(e)", calls + 1)
                     /\ UNCHANGED <<user, nextOid>>
                ELSE /\ user' = create_document(user, user_id, data, now)
                     /\ nextOid' = user_id
                     /\ resp' = Response("create_user", 200, "",
                                         serialize_doc(user_id, user'[user_id]),
                                         calls + 2)
    /\ UNCHANGED <<db, link, now, req>>

\* The orders find({}).sort([("created_at", -1)]) may return the users in.
user_orders(coll) ==
    {o \in [1..Cardinality(DOMAIN coll) -> DOMAIN coll] :
        /\ \A i, j \in DOMAIN o : i # j => o[i] # o[j]
        /\ \A i, j \in DOMAIN o :
               i < j => coll[o[i]].created_at >= coll[o[j]].created_at}

\* GET /users
list_users(limit) ==
    /\ IF ~limit_ok(limit)
       THEN resp' = HTTPException("list_users", 422, "limit", 0)
       ELSE IF db = "None"
       THEN resp' = HTTPException("list_users", 500, "Database not available", 0)
       ELSE \E o \in user_orders(user) :
                LET cursor == limit_to(o, limit)
                IN  resp' = Response("list_users", 200, "",
                                     [i \in 1..Len(cursor) |->
                                         serialize_doc(cursor[i], user[cursor[i]])],
                                     1)
    /\ UNCHANGED <<db, link, user, nextOid, now, req>>

-----------------------------------------------------------------------------
(* Requests in flight: a worker runs one handler, one store call per step, *)
(* and keeps the response it sent.                                         *)

\* The workers that are serving a request.
InFlight == {w \in Workers : req[w].pc \notin {"idle", "done"}}

\* A request served: what was asked, the requests that were in flight when
\* it was accepted, and the response.
Done(r, response) ==
    [pc |-> "done", op |-> r.op, arg |-> r.arg, during |-> r.during,
     resp |-> response]

\* A request accepted by worker w.
Accept(op, arg, pc) ==
    [pc |-> pc, op |-> op, arg |-> arg, during |-> InFlight]

\* increment_click up to its first store call.
click_begin(w, link_id) ==
    /\ req[w].pc = "idle"
    /\ LET a == Accept("increment_click", link_id, "command")
           r == IF db = "None"
                THEN Done(a, At(link_id, HTTPException("increment_click", 500,
                                                       "Database not available", 0)))
                ELSE IF ~is_valid(link_id)
                THEN Done(a, At(link_id, HTTPException("increment_click", 400,
                                                       "Invalid link id", 0)))
                ELSE a
       IN  /\ req' = [req EXCEPT ![w] = r]
           /\ resp' = IF r.pc = "done" THEN r.resp ELSE resp
    /\ UNCHANGED <<db, link, user, nextOid, now>>

\* db.command("serverStatus")["localTime"]
click_command(w) ==
    /\ req[w].pc = "command"
    /\ req' = [req EXCEPT ![w] =
                  [pc |-> "find_one_and_update", op |-> req[w].op, arg |-> req[w].arg,
                   during |-> req[w].during, localTime |-> now]]
    /\ UNCHANGED <<db, link, user, nextOid, now, resp>>

\* db["link"].find_one_and_update(...), and the response.
click_find_one_and_update(w) ==
    /\ req[w].pc = "find_one_and_update"
    /\ LET oid == ObjectId(req[w].arg)
       IN  IF oid \in DOMAIN link
           THEN /\ link' = [link EXCEPT ![oid] = inc_clicks(@, req[w].localTime)]
                /\ resp' = At(req[w].arg, Response("increment_click", 200, "",
                                                   serialize_doc(oid, link'[oid]), 2))
           ELSE /\ resp' = At(req[w].arg, HTTPException("increment_click", 404,
                                                        "Link not found", 2))
                /\ UNCHANGED link
    /\ req' = [req EXCEPT ![w] = Done(req[w], resp')]
    /\ UNCHANGED <<db, user, nextOid, now>>

\* create_user up to its first store call.
user_begin(w, payload) ==
    /\ req[w].pc = "idle"
    /\ LET a == Accept("create_user", payload, "find_one")
           r == IF db = "None"
                THEN Done(a, HTTPException("create_user", 500,
                                           "Database not available", 0))
                ELSE IF truthy(payload.email)
                THEN a
                ELSE [a EXCEPT !.pc = "create_document"]
       IN  /\ req' = [req EXCEPT ![w] = r]
           /\ resp' = IF r.pc = "done" THEN r.resp ELSE resp
    /\ UNCHANGED <<db, link, user, nextOid, now>>

\* exists = db["user"].find_one({"email": data["email"]})
user_find_one(w) ==
    /\ req[w].pc = "find_one"
    /\ LET exists == find_one_email(user, req[w].arg.email)
       IN  IF exists # None
           THEN /\ resp' = Response("create_user", 200, "",
                                    serialize_doc(Unwrap(exists), user[Unwrap(exists)]), 1)
                /\ req' = [req EXCEPT ![w] = Done(req[w], resp')]
           ELSE /\ req' = [req EXCEPT ![w].pc = "create_document"]
                /\ UNCHANGED resp
    /\ UNCHANGED <<db, link, user, nextOid, now>>

\* user_id = create_document("user", data)
user_create_document(w, stored) ==
    /\ req[w].pc = "create_document"
    /\ nextOid < MaxUsers
    /\ IF ~stored
       THEN /\ resp' = HTTPException("create_user", 500, "str(e)",
                                      IF truthy(req[w].arg.email) THEN 2 ELSE 1)
            /\ req' = [req EXCEPT ![w] = Done(req[w], resp')]
            /\ UNCHANGED <<user, nextOid>>
       ELSE /\ user' = create_document(user, nextOid + 1, req[w].arg, now)
            /\ nextOid' = nextOid + 1
            /\ req' = [req EXCEPT ![w] =
                          [pc |-> "fetch", op |-> req[w].op, arg |-> req[w].arg,
                           during |-> req[w].during, user_id |-> nextOid + 1]]
            /\ UNCHANGED resp
    /\ UNCHANGED <<db, link, now>>

\* doc = db["user"].find_one({"_id": ObjectId(user_id)}), and the response.
user_fetch(w) ==
    /\ req[w].pc = "fetch"
    /\ resp' = Response("create_user", 200, "",
                        serialize_doc(req[w].user_id, user[req[w].user_id]),
                        IF truthy(req[w].arg.email) THEN 3 ELSE 2)
    /\ req' = [req EXCEPT ![w] = Done(req[w], resp')]
    /\ UNCHANGED <<db, link, user, nextOid, now>>

-----------------------------------------------------------------------------
(* The requests the specifications send. *)

http == <<"h", "t", "t", "p">>
https == <<"h", "t", "t", "p", "s">>
url_a == <<http, <<":", "/", "/">>, <<"a">>>>
url_b == <<https, <<":", "/", "/">>, <<"b">>>>
not_a_url == <<<<"n", "o">>>>
Foo == <<"F", "o", "o">>
bar == <<"b", "a", "r">>
ann == <<"a", "n", "n">>
lbl_a == <<"a">>
lbl_B == <<"B">>

\* The well-formed identifiers (one more than the store ever issues) and a
\* malformed one.
LinkIds ==
    {str(n) : n \in 1..(MaxLinks + 1)} \cup {[hex |-> FALSE, n |-> 1]}

LinkA ==
    [title |-> Foo, url |-> url_a,
     labels |-> <<<<" ", "a", " ">>, <<>>, lbl_B>>,
     added_by |-> ann, description |-> None]

NoFields ==
    [title |-> None, url |-> None, labels |-> None, description |-> None]

Idle == [pc |-> "idle"]

Init ==
    /\ db \in {"None", "connected"}
    /\ link = <<>>
    /\ user = <<>>
    /\ nextOid = 0
    /\ now = 0
    /\ resp = Response("none", 0, "", <<>>, 0)
    /\ req = [w \in Workers |-> Idle]

-----------------------------------------------------------------------------
(* Spec: the link handlers, one request at a time. *)

CreateInputs == {LinkA, [LinkA EXCEPT !.url = not_a_url]}

UpdateInputs ==
    {NoFields,
     [NoFields EXCEPT !.title = Some(bar)]}

ListInputs ==
    {<<None, None, "popular", 100>>,
     <<Some(lbl_a), Some(<<"f", "O">>), "new", 1>>,
     <<None, None, "popular", 501>>,
     <<None, None, "old", 100>>}

Next ==
    \/ \E payload \in CreateInputs, stored \in BOOLEAN : create_link(payload, stored)
    \/ \E q \in ListInputs : list_links(q[1], q[2], q[3], q[4])
    \/ \E link_id \in LinkIds : increment_click(link_id)
    \/ \E link_id \in LinkIds, payload \in UpdateInputs : update_link(link_id, payload)
    \/ \E link_id \in LinkIds : delete_link(link_id)
    \/ list_labels

Spec == Init /\ [][Next]_vars

-----------------------------------------------------------------------------
(* SpecUpdate: creations, and partial updates of every shape of the first  *)
(* two links; the links created after them stand by.                       *)

UpdateShapes ==
    [title : {None, Some(bar)},
     url : {None, Some(url_b)},
     labels : {None, Some(<<<<"B", " ">>, <<"\t">>>>)},
     description : {None, Some(Foo)}]

StoredIds == {str(n) : n \in 1..MaxLinks}

UpdatedIds == {str(1), str(2)}

NextUpdate ==
    \/ \E stored \in BOOLEAN : create_link(LinkA, stored)
    \/ \E link_id \in UpdatedIds, payload \in UpdateShapes : update_link(link_id, payload)

SpecUpdate == Init /\ [][NextUpdate]_vars

-----------------------------------------------------------------------------
(* SpecLabels: links created and updated with labels of every kind, and    *)
(* the label counts.                                                       *)

LabelInputs ==
    {<<>>,
     <<<<" ", "a", " ">>, <<>>, lbl_B>>,
     <<lbl_a, lbl_a>>,
     <<<<" ", "\t">>>>,
     <<<<"B", " ", "a", "\t">>, lbl_a>>,
     <<lbl_B, <<"a", "B">>>>}

NextLabels ==
    \/ \E labels \in LabelInputs, stored \in BOOLEAN :
           create_link([LinkA EXCEPT !.labels = labels], stored)
    \/ \E link_id \in StoredIds, labels \in LabelInputs :
           update_link(link_id, [NoFields EXCEPT !.labels = Some(labels)])
    \/ \E link_id \in StoredIds : delete_link(link_id)
    \/ list_labels

SpecLabels == Init /\ [][NextLabels]_vars

-----------------------------------------------------------------------------
(* SpecUsers: the user handlers, one request at a time, while time passes. *)

bob == <<"b", "o", "b">>
a_at_x == <<"a", "@", "x">>

UserIn(name, email) == [name |-> name, email |-> email, avatar_url |-> None]

UserInputs ==
    {UserIn(ann, None), UserIn(ann, Some(a_at_x)), UserIn(bob, Some(a_at_x)),
     UserIn(ann, Some(<<>>))}

NextUsers ==
    \/ \E payload \in UserInputs, stored \in BOOLEAN : create_user(payload, stored)
    \/ \E limit \in {0, 1, 100} : list_users(limit)
    \/ Tick

SpecUsers == Init /\ [][NextUsers]_vars

-----------------------------------------------------------------------------
(* SpecUrl: links created and updated with urls that are and are not http  *)
(* urls.                                                                   *)

UrlInputs == {url_a, url_b, not_a_url}

NextUrl ==
    \/ \E url \in UrlInputs, stored \in BOOLEAN :
           create_link([LinkA EXCEPT !.url = url], stored)
    \/ \E link_id \in LinkIds, url \in UrlInputs :
           update_link(link_id, [NoFields EXCEPT !.url = Some(url)])
    \/ \E link_id \in LinkIds : delete_link(link_id)

SpecUrl == Init /\ [][NextUrl]_vars

-----------------------------------------------------------------------------
(* SpecClicks: click requests served concurrently, on links created         *)
(* meanwhile.                                                              *)

NextClicks ==
    \/ \E stored \in BOOLEAN : create_link(LinkA, stored)
    \/ \E w \in Workers, link_id \in LinkIds : click_begin(w, link_id)
    \/ \E w \in Workers : click_command(w)
    \/ \E w \in Workers : click_find_one_and_update(w)

SpecClicks == Init /\ [][NextClicks]_vars

-----------------------------------------------------------------------------
(* SpecUserRace: user creations served concurrently.                       *)

NextUserRace ==
    \/ \E w \in Workers, payload \in {UserIn(ann, Some(a_at_x)), UserIn(bob, None)} :
           user_begin(w, payload)
    \/ \E w \in Workers : user_find_one(w)
    \/ \E w \in Workers, stored \in BOOLEAN : user_create_document(w, stored)
    \/ \E w \in Workers : user_fetch(w)

SpecUserRace == Init /\ [][NextUserRace]_vars

-----------------------------------------------------------------------------
(* C1: concurrent clicks. *)

\* The click requests on link oid that were answered 200.
Clicked(oid) ==
    {w \in Workers :
        /\ req[w].pc = "done"
        /\ req[w].op = "increment_click"
        /\ req[w].resp.status = 200
        /\ ObjectId(req[w].arg) = oid}

\* C1: however the store steps of concurrent click requests interleave, a
\* link's clicks is the number of click requests on it that were served: N
\* requests raise it by exactly N, none is lost.
C1_NoLostClick ==
    \A oid \in DOMAIN link : link[oid].clicks = Cardinality(Clicked(oid))

\* Two click requests on one link overlapped (the second was accepted while
\* the first was in flight, and overtook it), both were served, and the
\* link's clicks is 2.
C1_Witness ==
    \E oid \in DOMAIN link : \E w1, w2 \in Clicked(oid) :
        /\ w1 \in req[w2].during
        /\ req[w2].resp.body.clicks = 1
        /\ req[w1].resp.body.clicks = 2
        /\ link[oid].clicks = 2

-----------------------------------------------------------------------------
(* C2: uniqueness of the email under concurrent creations. *)

\* C2: no two user documents carry the same provided email.
C2_EmailUnique ==
    \A i, j \in DOMAIN user :
        (i # j /\ user[i].email # None) => user[i].email # user[j].email

-----------------------------------------------------------------------------
(* C3: creating users one request at a time. *)

\* The response carries the record of an existing user with this email, and
\* the collection is as it was.
ReturnsExisting(payload) ==
    /\ user' = user
    /\ \E i \in DOMAIN user :
           /\ user[i].email = payload.email
           /\ resp'.body = serialize_doc(i, user[i])

\* The collection gained exactly one record, under an identifier it did not
\* hold, with the fields of the request; the others are as they were.
AddsOne(payload) ==
    \E n \in DOMAIN user' \ DOMAIN user :
        /\ DOMAIN user' = DOMAIN user \cup {n}
        /\ \A i \in DOMAIN user : user'[i] = user[i]
        /\ user'[n].name = payload.name
        /\ user'[n].email = payload.email
        /\ user'[n].avatar_url = payload.avatar_url
        /\ resp'.body.id = str(n)

\* C3 as stated, for the requests that are served: a create whose email is
\* provided and is the email of an existing user returns that user's record
\* and leaves the collection unchanged; a create with no email adds exactly
\* one new record under a fresh identifier.
C3_DedupProvided ==
    [][(resp'.op = "create_user" /\ resp'.status = 200) =>
       \A payload \in UserInputs :
          create_user(payload, TRUE) =>
              /\ (payload.email # None
                    /\ \E i \in DOMAIN user : user[i].email = payload.email)
                     => ReturnsExisting(payload)
              /\ payload.email = None => AddsOne(payload)]_vars

\* An email that is provided and is not the empty text.
NonEmpty(email) == email \notin {None, Some(<<>>)}

\* C3, amended: for the requests that are served, a create whose email is
\* provided, not empty and the email of an existing user returns that
\* user's record and leaves the collection unchanged; a create with no
\* email, or with an empty one, adds exactly one new record under a fresh
\* identifier, whatever the names and emails of the existing users.
C3_DedupNonEmpty ==
    [][(resp'.op = "create_user" /\ resp'.status = 200) =>
       \A payload \in UserInputs :
          create_user(payload, TRUE) =>
              /\ (NonEmpty(payload.email)
                    /\ \E i \in DOMAIN user : user[i].email = payload.email)
                     => ReturnsExisting(payload)
              /\ ~NonEmpty(payload.email) => AddsOne(payload)]_vars

\* A create with ann's email was answered with ann's record after one store
\* call, and the collection holds two users of one name, one without email:
\* both halves of C3 have happened.
C3_Witness ==
    /\ resp.op = "create_user" /\ resp.status = 200 /\ resp.store_calls = 1
    /\ resp.body.email = Some(a_at_x)
    /\ \E i, j \in DOMAIN user :
           /\ i # j
           /\ user[i].name = user[j].name
           /\ user[j].email = None
           /\ resp.body.id = str(i)

-----------------------------------------------------------------------------
(* C4: the labels a link is stored with. *)

Blank(s) == \A k \in 1..Len(s) : s[k] \in Whitespace

\* s from its first to its last character that is not whitespace.
Trimmed(s) ==
    LET solid == {k \in 1..Len(s) : s[k] \notin Whitespace}
        lo == CHOOSE k \in solid : \A m \in solid : k <= m
        hi == CHOOSE k \in solid : \A m \in solid : m <= k
    IN  [k \in 1..(hi - lo + 1) |-> s[lo + k - 1]]

\* stored is the entries of given that are not blank, each trimmed, in the
\* order given, a repeated entry kept as often as given.
NormalizedFrom(stored, given) ==
    LET kept == {k \in 1..Len(given) : ~Blank(given[k])}
    IN  /\ Len(stored) = Cardinality(kept)
        /\ \A k \in kept :
               stored[Cardinality({m \in kept : m <= k})] = Trimmed(given[k])

\* No entry is empty or starts or ends with whitespace.
Clean(labels) ==
    \A n \in 1..Len(labels) :
        /\ labels[n] # <<>>
        /\ labels[n][1] \notin Whitespace
        /\ labels[n][Len(labels[n])] \notin Whitespace

\* C4: after every step the labels of every stored link are clean; a create
\* stores the labels it is given normalized, and so does an update that
\* provides labels.
C4_LabelsNormalized ==
    [][/\ \A i \in DOMAIN link' : Clean(link'[i].labels)
       /\ (resp'.op = "create_link" /\ resp'.status = 200) =>
              \A labels \in LabelInputs :
                  create_link([LinkA EXCEPT !.labels = labels], TRUE)
                      => \E n \in DOMAIN link' \ DOMAIN link :
                             NormalizedFrom(link'[n].labels, labels)
       /\ (resp'.op = "update_link" /\ resp'.status = 200) =>
              \A labels \in LabelInputs :
                  update_link(resp'.body.id, [NoFields EXCEPT !.labels = Some(labels)])
                      => NormalizedFrom(link'[ObjectId(resp'.body.id)].labels, labels)]_vars

\* An update answered with the labels "B a" and "a" (given as "B a\t" and
\* "a"), while another link, never updated, holds the labels "a" and "B" it
\* was created with (given as " a ", "" and "B").
C4_Witness ==
    /\ resp.op = "update_link" /\ resp.status = 200
    /\ resp.body.labels = <<<<"B", " ", "a">>, lbl_a>>
    /\ \E i \in DOMAIN link :
           /\ "updated_at" \notin DOMAIN link[i]
           /\ link[i].labels = <<lbl_a, lbl_B>>

-----------------------------------------------------------------------------
(* C5: the click counter. *)

\* The links that exist before and after a step.
Kept == DOMAIN link \cap DOMAIN link'

\* The step is a served click on the link oid.
ServedClick(oid) ==
    /\ resp'.op = "increment_click"
    /\ resp'.status = 200
    /\ resp'.path = <<str(oid)>>

\* C5: a link is created with clicks = 0 under an identifier never issued
\* before; the clicks of a link are never negative and never decrease; they
\* change only in a served IncrementClick on that link, which raises them
\* by exactly 1 (so no other operation, Update included, changes them).
C5_ClicksMonotone ==
    [][/\ \A oid \in DOMAIN link' \ DOMAIN link :
              /\ link'[oid].clicks = 0
              /\ oid > nextOid
              /\ resp'.op = "create_link"
       /\ \A oid \in Kept :
              /\ link'[oid].clicks >= link[oid].clicks
              /\ link[oid].clicks >= 0
              /\ link'[oid].clicks # link[oid].clicks => ServedClick(oid)
              /\ ServedClick(oid) => link'[oid].clicks = link[oid].clicks + 1
      ]_vars

\* A link clicked twice has then been updated, and still holds 2 clicks.
C5_Witness ==
    /\ resp.op = "update_link"
    /\ resp.status = 200
    /\ resp.body.clicks = 2
    /\ resp.body.title = bar
    /\ link[ObjectId(resp.body.id)].clicks = 2

-----------------------------------------------------------------------------
(* C7: identifiers that are malformed or match no link. *)

\* The identifiers of 24 hexadecimal digits.
WellFormed == {str(n) : n \in 1..(MaxLinks + 1)}

OneField == [NoFields EXCEPT !.title = Some(bar)]

\* The step serves a click, an update of one field or a deletion of link_id.
OnLink(link_id) ==
    /\ resp'.path = <<link_id>>
    /\ \/ increment_click(link_id)
       \/ update_link(link_id, OneField)
       \/ delete_link(link_id)

\* C7: with the store handle available, IncrementClick, Update of a field
\* and Delete answer a malformed id with 400 and no store call, and a
\* well-formed id that matches no link with 404; the collection is left as
\* it was, and holds no link for that id.
C7_BadIdRejected ==
    [][(db # "None" /\ resp'.path # <<>>) =>
          \A link_id \in LinkIds :
              OnLink(link_id) =>
                  /\ link_id \notin WellFormed =>
                         /\ resp'.status = 400
                         /\ resp'.detail = "Invalid link id"
                         /\ resp'.store_calls = 0
                         /\ link' = link
                  /\ (link_id \in WellFormed /\ link_id.n \notin DOMAIN link) =>
                         /\ resp'.status = 404
                         /\ link' = link
                         /\ link_id.n \notin DOMAIN link'
      ]_vars

\* A deletion answered 404 for an identifier that was issued: its link has
\* been deleted before.
C7_Witness ==
    /\ db # "None"
    /\ resp.op = "delete_link"
    /\ resp.status = 404
    /\ resp.path[1].n <= nextOid
    /\ resp.path[1].n \notin DOMAIN link

-----------------------------------------------------------------------------
(* C8: an update that provides no field. *)

\* The step serves an update of link_id that provides no field, and it is
\* answered 400 without a store call and without a change of the links.
EmptyUpdateRejected(link_id) ==
    update_link(link_id, NoFields) =>
        /\ resp'.status = 400
        /\ resp'.store_calls = 0
        /\ link' = link

\* C8 as stated: Update with an empty partial returns 400 without reading
\* or writing the store, for every id, and the collection is unchanged.
C8_EmptyUpdate ==
    [][resp'.op = "update_link" =>
          \A link_id \in LinkIds : EmptyUpdateRejected(link_id)]_vars

\* C8, amended: with the store handle available, Update with an empty
\* partial returns 400 without reading or writing the store, for every id,
\* and the collection is unchanged.
C8_EmptyUpdateAvailable ==
    [][(db # "None" /\ resp'.op = "update_link") =>
          \A link_id \in LinkIds : EmptyUpdateRejected(link_id)]_vars

\* An update without fields of a stored link was answered 400, and the link
\* has no updated_at.
C8_Witness ==
    /\ db # "None"
    /\ resp.op = "update_link"
    /\ resp.status = 400
    /\ resp.detail = "No fields to update"
    /\ resp.path[1] \in WellFormed
    /\ resp.path[1].n \in DOMAIN link
    /\ "updated_at" \notin DOMAIN link[resp.path[1].n]

-----------------------------------------------------------------------------
(* C6: what a served update changes. *)

\* The fields a request provides as non-null.
Provided(payload) == {k \in DOMAIN payload : payload[k] # None}

\* The step changes, on the link oid, at most the provided fields and
\* updated_at, and no other link.
OnlyProvided(oid, payload) ==
    /\ DOMAIN link' = DOMAIN link
    /\ \A other \in DOMAIN link \ {oid} : link'[other] = link[other]
    /\ DOMAIN link'[oid] = DOMAIN link[oid] \cup {"updated_at"}
    /\ \A k \in DOMAIN link[oid] \ (Provided(payload) \cup {"updated_at"}) :
           link'[oid][k] = link[oid][k]
    /\ {"added_by", "clicks", "created_at"} \subseteq
           DOMAIN link[oid] \ (Provided(payload) \cup {"updated_at"})
    /\ resp'.body.id = str(oid)

\* C6: a served Update changes, on the link with that id, only the fields
\* the request provides as non-null and updated_at; every omitted field
\* keeps its value, id, added_by, clicks and created_at are unchanged, and
\* so is every other link.
C6_UpdateFrame ==
    [][(resp'.op = "update_link" /\ resp'.status = 200) =>
          \A payload \in UpdateShapes :
              update_link(resp'.path[1], payload)
                  => OnlyProvided(ObjectId(resp'.path[1]), payload)]_vars

\* An update of the title alone of a link whose description an earlier
\* update has set, while the other link is as it was created.
C6_Witness ==
    /\ resp.op = "update_link" /\ resp.status = 200
    /\ resp.body.title = bar
    /\ resp.body.description = Some(Foo)
    /\ resp.body.url = url_a
    /\ resp.body.added_by = ann
    /\ \E other \in DOMAIN link :
           /\ str(other) # resp.body.id
           /\ "updated_at" \notin DOMAIN link[other]
           /\ link[other].title = Foo

-----------------------------------------------------------------------------
(* C9: the label counts. *)

\* The places <<link, position>> where the collection holds a label.
Places ==
    UNION {{<<oid, n>> : n \in 1..Len(link[oid].labels)} : oid \in DOMAIN link}

\* The number of occurrences of a label in the collection.
Occurrences(label) ==
    Cardinality({p \in Places : link[p[1]].labels[p[2]] = label})

\* a comes before b in the order of the code points.
Before(a, b) ==
    \E n \in 1..(Len(a) + 1) :
        /\ n <= Len(b)
        /\ \A m \in 1..(n - 1) : a[m] = b[m]
        /\ n <= Len(a) => ord(a[n]) < ord(b[n])

\* The pairs are one per label of the collection, each with the number of
\* its occurrences, by count descending and then by label ascending.
Counted(pairs) ==
    /\ {pairs[n].label : n \in DOMAIN pairs} =
           {link[p[1]].labels[p[2]] : p \in Places}
    /\ \A m, n \in DOMAIN pairs :
           m < n =>
               \/ pairs[m].count > pairs[n].count
               \/ /\ pairs[m].count = pairs[n].count
                  /\ Before(pairs[m].label, pairs[n].label)
    /\ \A n \in DOMAIN pairs : pairs[n].count = Occurrences(pairs[n].label)

\* C9: AggregateLabels returns one pair per distinct label of the
\* collection, its count the number of occurrences of the label in all
\* links, by count descending and then by label ascending, and leaves the
\* collection unchanged.
C9_LabelCounts ==
    [][(db # "None" /\ resp'.op = "list_labels") =>
          /\ resp'.status = 200
          /\ Counted(resp'.body)
          /\ link' = link]_vars

\* The counts of a collection where a link holds "a" twice and another
\* holds "B" and "aB" once each: "a" 2, then "B" before "aB".
C9_Witness ==
    /\ resp.op = "list_labels" /\ resp.status = 200
    /\ resp.body = <<[label |-> lbl_a, count |-> 2],
                     [label |-> lbl_B, count |-> 1],
                     [label |-> <<"a", "B">>, count |-> 1]>>
    /\ \E oid \in DOMAIN link : link[oid].labels = <<lbl_a, lbl_a>>

-----------------------------------------------------------------------------
(* C10: the urls of the stored links. *)

\* C10: every stored link's url is a valid absolute URL.
C10_UrlValid == \A oid \in DOMAIN link : HttpUrl(link[oid].url)


=============================================================================
